---- MODULE Spec2Model ----
(***************************************************************************)
(* A model of web/server.py, the local API layer between the browser UI    *)
(* and the yt-dlp extraction engine.                                       *)
(*                                                                         *)
(* Text is modelled as a sequence of tokens.  A token is either one        *)
(* character ("a", "&", "=", ...), one percent-escape ("%26"), or a fixed  *)
(* piece of text that the code never looks into ("watch", "bestvideo").    *)
(* The first token of a URL is its scheme and authority.                   *)
(***************************************************************************)
EXTENDS Integers, Sequences, FiniteSets, TLC

(***************************************************************************)
(* Bounds of the model.                                                    *)
(***************************************************************************)
MaxIdLen == 2
MaxExtra == 1

(***************************************************************************)
(* Generic sequence helpers (Python str methods on token sequences).       *)
(***************************************************************************)
SeqsUpTo(S, n) == UNION {[1..k -> S] : k \in 0..n}

Contains(s, c) == \E i \in 1..Len(s) : s[i] = c

\* index of the first occurrence of c in s, 0 when there is none
IndexOf(s, c) ==
    IF Contains(s, c) THEN CHOOSE i \in 1..Len(s) : s[i] = c /\ \A j \in 1..(i-1) : s[j] # c
    ELSE 0

\* s.split(c, 1)[0]
Before(s, c) == IF Contains(s, c) THEN SubSeq(s, 1, IndexOf(s, c) - 1) ELSE s

\* s.split(c, 1)[1], the empty text when c does not occur
After(s, c) == IF Contains(s, c) THEN SubSeq(s, IndexOf(s, c) + 1, Len(s)) ELSE <<>>

\* s.split(c): the pieces between the occurrences of c
RECURSIVE Split(_, _)
Split(s, c) ==
    IF Contains(s, c) THEN <<Before(s, c)>> \o Split(After(s, c), c) ELSE <<s>>

\* s.lstrip(c)
RECURSIVE LStrip(_, _)
LStrip(s, c) == IF s # <<>> /\ Head(s) = c THEN LStrip(Tail(s), c) ELSE s

\* s.rstrip(c)
RECURSIVE RStrip(_, _)
RStrip(s, c) ==
    IF s # <<>> /\ s[Len(s)] = c THEN RStrip(SubSeq(s, 1, Len(s) - 1), c) ELSE s

MapSeq(s, f) == [i \in 1..Len(s) |-> f[s[i]]]

\* the index of the first TRUE of a sequence of truth values, 0 when there is none
FirstTrue(flags) ==
    IF \E i \in 1..Len(flags) : flags[i]
    THEN CHOOSE i \in 1..Len(flags) : flags[i] /\ \A j \in 1..(i-1) : ~flags[j]
    ELSE 0

(***************************************************************************)
(* URLs.                                                                   *)
(***************************************************************************)
Authorities == {"https://youtu.be", "https://YOUTU.BE", "https://www.youtube.com",
                "https://www.youtube-nocookie.com", "https://example.com"}

\* characters a request may put into a video id or a parameter value
UrlChars == {"a", "&", "=", "?", "#", "%26"}
\* the characters of UrlChars that are neither reserved in a URL nor an escape
PlainChars == {"a"}
AllTokens == UrlChars \cup {"/", "watch", "v", "t", "5", "+", " "}

\* (parsed.hostname or "").lower()
hostname == [a \in Authorities |->
    CASE a = "https://youtu.be" -> "youtu.be"
      [] a = "https://YOUTU.BE" -> "youtu.be"
      [] a = "https://www.youtube.com" -> "www.youtube.com"
      [] a = "https://www.youtube-nocookie.com" -> "www.youtube-nocookie.com"
      [] a = "https://example.com" -> "example.com"]

\* host.endswith("youtu.be")
EndsWithYoutuBe(host) == host \in {"youtu.be"}
\* host.endswith("youtube.com") or host.endswith("youtube-nocookie.com")
EndsWithYoutube(host) == host \in {"www.youtube.com", "www.youtube-nocookie.com"}

\* urllib.parse.unquote after replace("+", " "), one token at a time
unquote == [c \in AllTokens |->
    CASE c = "%26" -> "&"
      [] c = "+" -> " "
      [] OTHER -> c]

\* urllib.parse.urlparse: the text after the authority is cut at the first
\* "#" (fragment), what remains at the first "?" (query), the rest is the path
urlparse(url) ==
    LET rest == Tail(url)
        nofrag == Before(rest, "#")
    IN [netloc |-> Head(url),
        path |-> Before(nofrag, "?"),
        query |-> After(nofrag, "?"),
        fragment |-> After(rest, "#")]

\* urllib.parse.parse_qsl: the pairs name=value between "&", blank values
\* dropped, names and values unquoted
parse_qsl(query) ==
    LET pieces == Split(query, "&")
        Keep(p) == p # <<>> /\ Contains(p, "=") /\ After(p, "=") # <<>>
        kept == SelectSeq(pieces, Keep)
    IN [i \in 1..Len(kept) |->
            [name |-> MapSeq(Before(kept[i], "="), unquote),
             value |-> MapSeq(After(kept[i], "="), unquote)]]

\* (parse_qs(query).get(name) or [""])[0]
QueryGet(query, name) ==
    LET pairs == parse_qsl(query)
        k == FirstTrue([i \in 1..Len(pairs) |-> pairs[i].name = name])
    IN IF k = 0 THEN <<>> ELSE pairs[k].value

\* f"https://www.youtube.com/watch?v={video_id}"
WatchUrl(video_id) == <<"https://www.youtube.com", "/", "watch", "?", "v", "=">> \o video_id

\* normalize_youtube_url without the youtube-nocookie.com host
normalize_youtube_url_no_privacy(url) ==
    LET parsed == urlparse(url)
        host == hostname[parsed.netloc]
        short_id == Split(LStrip(parsed.path, "/"), "/")[1]
        query_id == QueryGet(parsed.query, <<"v">>)
    IN IF EndsWithYoutuBe(host) /\ short_id # <<>> THEN WatchUrl(short_id)
       ELSE IF host = "www.youtube.com" /\ query_id # <<>> THEN WatchUrl(query_id)
       ELSE url

normalize_youtube_url(url) ==
    LET parsed == urlparse(url)
        host == hostname[parsed.netloc]
        short_id == Split(LStrip(parsed.path, "/"), "/")[1]
        query_id == QueryGet(parsed.query, <<"v">>)
    IN IF EndsWithYoutuBe(host) /\ short_id # <<>> THEN WatchUrl(short_id)
       ELSE IF EndsWithYoutube(host) /\ query_id # <<>> THEN WatchUrl(query_id)
       ELSE url

(***************************************************************************)
(* Quality tiers.  A stream descriptor is [vcodec, height]; vcodec "None"  *)
(* is Python's None (or a missing key), height 0 is a missing, None or     *)
(* zero height.  A format selector is a token sequence.  A rung of the     *)
(* ladder carries its height and the decimal text of that height.          *)
(***************************************************************************)
MaxFormats == 4

TIERS == <<[height |-> 2160, text |-> "2160", label |-> "4K (2160p)"],
           [height |-> 1440, text |-> "1440", label |-> "1440p"],
           [height |-> 1080, text |-> "1080", label |-> "1080p"],
           [height |-> 720, text |-> "720", label |-> "720p"],
           [height |-> 480, text |-> "480", label |-> "480p"],
           [height |-> 360, text |-> "360", label |-> "360p"]>>

BestSelector == <<"bestvideo", "+", "bestaudio", "/", "best">>
\* height is the decimal text of the rung, as the f-string renders it
TierSelector(height) ==
    <<"bestvideo", "[height<=", height, "]", "+", "bestaudio", "/", "best">>
AudioSelector == <<"bestaudio", "/", "best">>

\* the set comprehension of lines 73-76
available_heights(formats) ==
    {formats[i].height : i \in {j \in 1..Len(formats) :
        /\ formats[j].vcodec \notin {"None", "none"}
        /\ formats[j].height # 0}}

TierOption(t) ==
    [id |-> <<"tier_", t.text>>,
     label |-> <<t.label, " (mp4)">>,
     ext |-> "mp4",
     format_string |-> TierSelector(t.text)]

\* build_format_options with h > height for h >= height
build_format_options_strict(info) ==
    LET formats == IF info.has_formats THEN info.formats ELSE <<>>
        heights == available_heights(formats)
        Offered(t) == \E h \in heights : h > t.height
        rungs == SelectSeq(TIERS, Offered)
    IN <<[id |-> BestSelector, label |-> <<"Best Available", " (mkv)">>,
          ext |-> "mkv", format_string |-> BestSelector]>>
       \o [i \in 1..Len(rungs) |-> TierOption(rungs[i])]
       \o <<[id |-> <<"bestaudio">>, label |-> <<"Audio only", " (m4a)">>,
             ext |-> "m4a", format_string |-> AudioSelector]>>

\* info is [has_formats, formats]: info.get("formats") or []
build_format_options(info) ==
    LET formats == IF info.has_formats THEN info.formats ELSE <<>>
        heights == available_heights(formats)
        Offered(t) == \E h \in heights : h >= t.height
        rungs == SelectSeq(TIERS, Offered)
    IN <<[id |-> BestSelector, label |-> <<"Best Available", " (mkv)">>,
          ext |-> "mkv", format_string |-> BestSelector]>>
       \o [i \in 1..Len(rungs) |-> TierOption(rungs[i])]
       \o <<[id |-> <<"bestaudio">>, label |-> <<"Audio only", " (m4a)">>,
             ext |-> "m4a", format_string |-> AudioSelector]>>

\* the descriptors an engine response is drawn from
Descriptors ==
    {[vcodec |-> "avc1", height |-> h] : h \in {0, 360, 480, 720, 1080, 1200}}
    \cup {[vcodec |-> "none", height |-> 2160], [vcodec |-> "None", height |-> 1440],
          [vcodec |-> "none", height |-> 0]}

Infos ==
    {[has_formats |-> TRUE, formats |-> f] : f \in SeqsUpTo(Descriptors, MaxFormats)}
    \cup {[has_formats |-> FALSE, formats |-> <<>>]}

(***************************************************************************)
(* Engine error messages and their classification.  A message is a token   *)
(* sequence; "\n" ends a line, " " is white space, the phrases the code    *)
(* looks for are one token each, "x" is any other text.                    *)
(***************************************************************************)
MaxMsgLen == 4
SummaryLimit == 240

MsgTokens == {" ", "\n", "ERROR:", "x", "Sign in to confirm", "not a bot",
              "HTTP Error 403", "403 forbidden", "status code 403"}
Messages == SeqsUpTo(MsgTokens, MaxMsgLen)

\* str.lower(), one token at a time
lower == [c \in MsgTokens \cup {"error:", "sign in to confirm", "http error 403"} |->
    CASE c = "ERROR:" -> "error:"
      [] c = "Sign in to confirm" -> "sign in to confirm"
      [] c = "HTTP Error 403" -> "http error 403"
      [] OTHER -> c]

\* the number of characters of a token
width == [c \in MsgTokens |->
    CASE c = "ERROR:" -> 6
      [] c = "Sign in to confirm" -> 18
      [] c = "not a bot" -> 9
      [] c = "HTTP Error 403" -> 14
      [] c = "403 forbidden" -> 13
      [] c = "status code 403" -> 15
      [] OTHER -> 1]

\* s[:limit]: the longest prefix of whole tokens within limit characters
RECURSIVE Truncate(_, _)
Truncate(s, limit) ==
    IF s = <<>> \/ width[Head(s)] > limit THEN <<>>
    ELSE <<Head(s)>> \o Truncate(Tail(s), limit - width[Head(s)])

\* str.splitlines(): the lines, without a last empty one
splitlines(message) ==
    LET pieces == Split(message, "\n")
    IN IF pieces[Len(pieces)] = <<>> THEN SubSeq(pieces, 1, Len(pieces) - 1) ELSE pieces

\* str.strip()
strip(s) == RStrip(LStrip(s, " "), " ")

ProbeFailed == <<"Probe failed">>

summarize_probe_error(message) ==
    LET lines == splitlines(message)
        k == FirstTrue([i \in 1..Len(lines) |-> strip(lines[i]) # <<>>])
        cleaned == IF k = 0 THEN <<>> ELSE strip(lines[k])
    IN IF message = <<>> THEN ProbeFailed
       ELSE IF cleaned = <<>> THEN ProbeFailed
       ELSE IF lower[Head(cleaned)] = "error:"
            THEN Truncate(strip(Tail(cleaned)), SummaryLimit)
       ELSE Truncate(cleaned, SummaryLimit)

\* Optional[str]: is_none is Python's None
None == [is_none |-> TRUE, text |-> <<>>]
Some(text) == [is_none |-> FALSE, text |-> text]
\* the truth value of an Optional[str]: None and "" are false
Truthy(opt) == ~opt.is_none /\ opt.text # <<>>

auth_error_detail(message) ==
    LET lowered == MapSeq(message, lower)
    IN IF message = <<>> THEN None
       ELSE IF Contains(lowered, "sign in to confirm") \/ Contains(lowered, "not a bot")
            THEN Some(summarize_probe_error(message))
       ELSE IF \/ Contains(lowered, "http error 403")
               \/ Contains(lowered, "403 forbidden")
               \/ Contains(lowered, "status code 403")
            THEN Some(summarize_probe_error(message))
       ELSE None

(***************************************************************************)
(* Progress reports and events.  A report d is the engine's callback       *)
(* argument; 0 stands for a missing, None or zero total_bytes,             *)
(* total_bytes_estimate and speed (the code tests their truth value), and  *)
(* a negative eta for None.  Percentages are kept in tenths of a percent.  *)
(***************************************************************************)
\* round(n / d) to the nearest integer, ties to even
Round(n, d) ==
    LET q == n \div d
        r == n % d
    IN IF 2 * r < d THEN q
       ELSE IF 2 * r > d THEN q + 1
       ELSE IF q % 2 = 0 THEN q ELSE q + 1

Dash == [value |-> <<>>, unit |-> "-"]

format_speed(speed) ==
    IF speed = 0 THEN Dash
    ELSE IF speed >= 1000000 THEN [value |-> <<Round(speed * 10, 1000000)>>, unit |-> "MB/s"]
    ELSE IF speed >= 1000 THEN [value |-> <<Round(speed, 1000)>>, unit |-> "KB/s"]
    ELSE [value |-> <<speed>>, unit |-> "B/s"]

format_eta(eta) ==
    IF eta <= 0 THEN Dash
    ELSE LET hours == eta \div 3600
             minutes == (eta % 3600) \div 60
             seconds == eta % 60
         IN IF hours > 0 THEN [value |-> <<hours, minutes, seconds>>, unit |-> "h:mm:ss"]
            ELSE [value |-> <<minutes, seconds>>, unit |-> "m:ss"]

Event(type, status, percent, speed, eta, text) ==
    [type |-> type, status |-> status, percent |-> percent,
     speed |-> speed, eta |-> eta, text |-> text]

\* progress_hook sending the merging event twice
progress_hook_twice(d) ==
    IF d.status = "downloading" THEN
        LET total == IF d.total_bytes # 0 THEN d.total_bytes ELSE d.total_bytes_estimate
            percent == IF total # 0 THEN Round(d.downloaded_bytes * 1000, total) ELSE 0
        IN <<Event("progress", "downloading", percent,
                   format_speed(d.speed), format_eta(d.eta), <<>>)>>
    ELSE IF d.status = "finished" THEN
        <<Event("progress", "merging", 1000, Dash, Dash, <<>>),
          Event("progress", "merging", 1000, Dash, Dash, <<>>)>>
    ELSE <<>>

\* the events progress_hook hands to send_event for one report
progress_hook(d) ==
    IF d.status = "downloading" THEN
        LET total == IF d.total_bytes # 0 THEN d.total_bytes ELSE d.total_bytes_estimate
            percent == IF total # 0 THEN Round(d.downloaded_bytes * 1000, total) ELSE 0
        IN <<Event("progress", "downloading", percent,
                   format_speed(d.speed), format_eta(d.eta), <<>>)>>
    ELSE IF d.status = "finished" THEN
        <<Event("progress", "merging", 1000, Dash, Dash, <<>>)>>
    ELSE <<>>

Report(status, downloaded, total, estimate, speed, eta) ==
    [status |-> status, downloaded_bytes |-> downloaded, total_bytes |-> total,
     total_bytes_estimate |-> estimate, speed |-> speed, eta |-> eta]

Reports ==
    {Report("downloading", 1, 2, 0, 1500000, 75),
     Report("downloading", 2, 2, 0, 0, -1),
     Report("downloading", 1, 3, 0, 2500, 3700),
     Report("downloading", 1, 0, 0, 0, 0),
     Report("downloading", 1, 0, 4, 500, 5),
     Report("finished", 2, 2, 0, 0, -1),
     Report("error", 0, 0, 0, 0, -1)}

(***************************************************************************)
(* What the engine does with one call: it returns, or raises an exception  *)
(* whose text is a message.                                                *)
(***************************************************************************)
Running == [kind |-> "none", message |-> <<>>]
Returned == [kind |-> "ok", message |-> <<>>]
Raised(message) == [kind |-> "raise", message |-> message]

\* the try/except around the engine call in _extract_info and in
\* _download_video: AuthRequiredError(detail) when the detail is true,
\* otherwise the engine's exception again
EngineResult(outcome) ==
    IF outcome.kind = "ok" THEN [kind |-> "ok", text |-> <<>>]
    ELSE LET detail == auth_error_detail(outcome.message)
         IN IF Truthy(detail) THEN [kind |-> "auth", text |-> detail.text]
            ELSE [kind |-> "error", text |-> outcome.message]

\* what a handler has sent: status 0 is no response at all
NoResponse == [status |-> 0, ctype |-> "none", error |-> <<>>, detail |-> <<>>]
_send_json(error, detail, status) ==
    [status |-> status, ctype |-> "application/json", error |-> error, detail |-> detail]
EventStream == [status |-> 200, ctype |-> "text/event-stream", error |-> <<>>, detail |-> <<>>]

\* the except clauses of _handle_api (video-info) and of _handle_download
JsonAnswer(result) ==
    IF result.kind = "ok" THEN _send_json(<<>>, <<>>, 200)
    ELSE IF result.kind = "auth" THEN _send_json(<<"AUTH_REQUIRED">>, result.text, 401)
    ELSE _send_json(result.text, <<>>, 500)

\* the terminal event of a stream session
TerminalEvent(outcome) ==
    IF outcome.kind = "ok" THEN Event("complete", "", 0, Dash, Dash, <<>>)
    ELSE LET detail == auth_error_detail(outcome.message)
         IN Event("error", "", 0, Dash, Dash,
                  IF Truthy(detail) THEN detail.text ELSE outcome.message)

(***************************************************************************)
(* The requests' URLs: a short link, or a watch page with parameters.      *)
(***************************************************************************)
VideoIds == SeqsUpTo(UrlChars, MaxIdLen)
\* the parameters around the v parameter of a watch URL: another parameter,
\* a second v parameter, a v parameter without a value
ExtraParams == {[name |-> <<"t">>, value |-> <<"5">>],
                [name |-> <<"v">>, value |-> <<"a">>],
                [name |-> <<"v">>, value |-> <<>>]}
ShortSuffixes == {<<>>, <<"/", "a">>, <<"?", "t", "=", "5">>}

\* s with x put in before its element number k + 1
InsertAt(s, k, x) == SubSeq(s, 1, k) \o <<x>> \o SubSeq(s, k + 1, Len(s))

SeqAndPosition(S, n) == {<<s, k>> : s \in SeqsUpTo(S, n), k \in 0..n}

UrlForms ==
    {[kind |-> "short", authority |-> a, id |-> x, suffix |-> s, params |-> <<>>] :
        a \in Authorities, x \in VideoIds, s \in ShortSuffixes}
    \cup
    {[kind |-> "watch", authority |-> a, id |-> x, suffix |-> <<>>,
      params |-> InsertAt(e[1], e[2], [name |-> <<"v">>, value |-> x])] :
        a \in Authorities, x \in VideoIds,
        e \in {f \in SeqAndPosition(ExtraParams, MaxExtra) : f[2] <= Len(f[1])}}

RECURSIVE JoinParams(_)
JoinParams(ps) ==
    IF ps = <<>> THEN <<>>
    ELSE Head(ps).name \o <<"=">> \o Head(ps).value
         \o (IF Len(ps) > 1 THEN <<"&">> ELSE <<>>) \o JoinParams(Tail(ps))

RenderUrl(f) ==
    IF f.kind = "short" THEN <<f.authority, "/">> \o f.id \o f.suffix
    ELSE <<f.authority, "/", "watch", "?">> \o JoinParams(f.params)

(***************************************************************************)
(* Credentials and engine options.  A Python dict is a function from its   *)
(* keys to its values; every value is a sequence.  Python's None inside a  *)
(* tuple is the record None, a string there is Some(text).                 *)
(***************************************************************************)
EmptyDict == [k \in {} |-> <<>>]
\* d[key] = value for one key
Item(key, value) == [k \in {key} |-> value]
\* d.update(e), as a new dict
dict_update(d, e) == [k \in DOMAIN d \cup DOMAIN e |-> IF k \in DOMAIN e THEN e[k] ELSE d[k]]
\* d.pop(key, None), as a new dict
dict_pop(d, key) == [k \in DOMAIN d \ {key} |-> d[k]]

AUTH_COOKIE_SOURCE == <<"chrome">>

\* the tokens of a browser specification, of a profile name and of a path
SpecTokens == {"chrome", "Chrome", "firefox", "gnomekeyring", "GNOMEKEYRING",
               "+", ":", "::", " ", "Default", "Profile 1", "cookies.txt", "missing.txt"}
\* str.lower() and str.upper(), one token at a time
lower_token == [c \in SpecTokens |->
    CASE c = "Chrome" -> "chrome"
      [] c = "GNOMEKEYRING" -> "gnomekeyring"
      [] OTHER -> c]
upper_token == [c \in SpecTokens |->
    CASE c = "gnomekeyring" -> "GNOMEKEYRING"
      [] OTHER -> c]
SUPPORTED_KEYRINGS == {<<"GNOMEKEYRING">>}

\* parse_browser_cookie_spec: name[+keyring][:profile][::container]; ok is
\* FALSE where the code raises ValueError
parse_browser_cookie_spec(spec) ==
    LET s == strip(spec)
        has_container == Contains(s, "::")
        s1 == Before(s, "::")
        has_profile == Contains(s1, ":")
        s2 == Before(s1, ":")
        has_keyring == Contains(s2, "+")
        name == MapSeq(Before(s2, "+"), lower_token)
        keyring == MapSeq(After(s2, "+"), upper_token)
    IN [ok |-> /\ name = AUTH_COOKIE_SOURCE
               /\ has_keyring => keyring \in SUPPORTED_KEYRINGS
               /\ has_profile => After(s1, ":") # <<>>
               /\ has_container => After(s, "::") # <<>>,
        value |-> <<Some(name),
                    IF has_profile THEN Some(After(s1, ":")) ELSE None,
                    IF has_keyring THEN Some(keyring) ELSE None,
                    IF has_container THEN Some(After(s, "::")) ELSE None>>]

\* the files that exist
ExistingFiles == {<<"cookies.txt">>}

\* the command lines: --cookies-file and --cookies-from-browser, given or not
CommandLines ==
    [cookies_file : {None, Some(<<>>), Some(<<"cookies.txt">>), Some(<<"missing.txt">>)},
     cookies_from_browser : {None, Some(<<>>), Some(<<"Chrome", ":", "Profile 1">>),
                             Some(<<"chrome", "+", "gnomekeyring">>), Some(<<"firefox">>)}]

\* parse_args: the namespace args; ok is FALSE where parser.error ends the process
parse_args(argv) ==
    LET parsed == parse_browser_cookie_spec(argv.cookies_from_browser.text)
    IN [ok |-> /\ Truthy(argv.cookies_file) => argv.cookies_file.text \in ExistingFiles
               /\ Truthy(argv.cookies_from_browser) => parsed.ok,
        cookies_file |-> argv.cookies_file,
        cookies_from_browser |->
            IF Truthy(argv.cookies_from_browser) THEN Some(parsed.value)
            ELSE argv.cookies_from_browser]

\* the namespaces with which main goes on to start the server
StartupArgs == {[cookies_file |-> parse_args(a).cookies_file,
                 cookies_from_browser |-> parse_args(a).cookies_from_browser] :
                    a \in {b \in CommandLines : parse_args(b).ok}}
NoArgs == [cookies_file |-> None, cookies_from_browser |-> None]

\* the auth_opts main puts into VideoInfoHandler.ydl_auth_opts
main_auth_opts(a) ==
    dict_update(IF Truthy(a.cookies_file) THEN Item("cookiefile", a.cookies_file.text)
                ELSE EmptyDict,
                IF Truthy(a.cookies_from_browser)
                THEN Item("cookiesfrombrowser", a.cookies_from_browser.text)
                ELSE EmptyDict)

\* the value of the environment variable VIDEO_DL_CHROME_PROFILE; the empty
\* text when it is not set
Environments == {<<>>, <<" ">>, <<"Default">>, <<" ", "Profile 1", " ">>}

\* os.environ.get(AUTH_PROFILE_ENV, "").strip() or None
get_chrome_profile(env) == IF strip(env) = <<>> THEN None ELSE Some(strip(env))

\* f"{AUTH_COOKIE_SOURCE}:{profile}" if profile else AUTH_COOKIE_SOURCE
cookie_cli_arg(env) ==
    IF Truthy(get_chrome_profile(env))
    THEN AUTH_COOKIE_SOURCE \o <<":">> \o get_chrome_profile(env).text
    ELSE AUTH_COOKIE_SOURCE

cookie_spec(env) == <<Some(AUTH_COOKIE_SOURCE), get_chrome_profile(env), None, None>>

\* the class attribute base_ydl_opts
BaseYdlOpts ==
    [k \in {"quiet", "nocheckcertificate", "no_warnings", "ignoreconfig", "js_runtimes",
            "remote_components"} |->
        CASE k = "js_runtimes" -> <<"node">>
          [] k = "remote_components" -> <<"ejs:github">>
          [] OTHER -> <<"True">>]

\* CookiePrecedence that clears nothing: the default is added when there
\* is no credential at all
CookiePrecedenceKeepBoth(auth, env, opts) ==
    IF "cookiefile" \in DOMAIN opts \/ "cookiesfrombrowser" \in DOMAIN opts THEN opts
    ELSE dict_update(opts, Item("cookiesfrombrowser", cookie_spec(env)))

\* the cookie precedence of _compose_ydl_opts, on the merged options
CookiePrecedence(auth, env, opts) ==
    IF "cookiefile" \in DOMAIN auth THEN dict_pop(opts, "cookiesfrombrowser")
    ELSE IF "cookiesfrombrowser" \in DOMAIN auth THEN dict_pop(opts, "cookiefile")
    ELSE IF "cookiefile" \in DOMAIN opts THEN dict_pop(opts, "cookiesfrombrowser")
    ELSE IF "cookiesfrombrowser" \in DOMAIN opts THEN dict_pop(opts, "cookiefile")
    ELSE dict_pop(dict_update(opts, Item("cookiesfrombrowser", cookie_spec(env))), "cookiefile")

\* _compose_ydl_opts merging the overrides into ydl_auth_opts itself
\* instead of a copy
_compose_ydl_opts_in_place(auth, base, env, overrides) ==
    LET merged == dict_update(auth, overrides)
        opts == CookiePrecedence(auth, env, dict_update(base, merged))
    IN [opts |-> opts, ydl_auth_opts |-> merged, base_ydl_opts |-> base]

\* _compose_ydl_opts: the dict it returns, and the class attributes after
\* the call
_compose_ydl_opts(auth, base, env, overrides) ==
    LET opts == CookiePrecedence(auth, env, dict_update(dict_update(base, auth), overrides))
    IN [opts |-> opts, ydl_auth_opts |-> auth, base_ydl_opts |-> base]

\* the format selector of _download_video (lines 663-668)
fmt_download(format_string, quality) ==
    IF format_string # <<>> THEN format_string
    ELSE IF quality # <<>> THEN quality \o <<"/">> \o <<"bestvideo", "+", "bestaudio", "/", "best">>
    ELSE <<"bestvideo", "+", "bestaudio", "/", "best">>

\* the merge format of _download_video (lines 671-675); None is no merge format
merge_fmt_download(fmt) ==
    IF fmt = <<"bestvideo", "+", "bestaudio", "/", "best">> THEN Some(<<"mkv">>)
    ELSE IF Contains(fmt, "bestaudio") /\ ~Contains(fmt, "bestvideo") THEN None
    ELSE Some(<<"mp4">>)

\* the format selector of _handle_download_stream (lines 545-550)
fmt_stream(format_string, quality) ==
    IF format_string # <<>> THEN format_string
    ELSE IF quality # <<>> THEN quality \o <<"/">> \o <<"bestvideo", "+", "bestaudio", "/", "best">>
    ELSE <<"bestvideo", "+", "bestaudio", "/", "best">>

\* merge_fmt_stream without the branch for the best available selector
merge_fmt_stream_mp4(fmt) ==
    IF Contains(fmt, "bestaudio") /\ ~Contains(fmt, "bestvideo") THEN None
    ELSE Some(<<"mp4">>)

\* the merge format of _handle_download_stream (lines 552-556)
merge_fmt_stream(fmt) ==
    IF fmt = <<"bestvideo", "+", "bestaudio", "/", "best">> THEN Some(<<"mkv">>)
    ELSE IF Contains(fmt, "bestaudio") /\ ~Contains(fmt, "bestvideo") THEN None
    ELSE Some(<<"mp4">>)

\* extra_opts of _download_video and of _handle_download_stream
extra_opts(fmt, merge_fmt, hooks) ==
    dict_update(
        dict_update([k \in {"format", "outtmpl", "paths", "noprogress"} |->
                        CASE k = "format" -> fmt
                          [] k = "outtmpl" -> <<"save_dir", "/", "%(title)s.%(ext)s">>
                          [] k = "paths" -> <<"home", "save_dir">>
                          [] k = "noprogress" -> <<"True">>],
                    hooks),
        IF Truthy(merge_fmt) THEN Item("merge_output_format", merge_fmt.text) ELSE EmptyDict)

\* the overrides of _extract_info
ExtractInfoOverrides ==
    [k \in {"skip_download", "noplaylist", "extract_flat"} |->
        IF k = "extract_flat" THEN <<"False">> ELSE <<"True">>]

\* the metadata responses whose tiers a client submits
TierInfos ==
    {[has_formats |-> TRUE, formats |-> <<[vcodec |-> "avc1", height |-> h]>>] :
        h \in {2160, 480}}
    \cup {[has_formats |-> FALSE, formats |-> <<>>]}
TierFormatStrings ==
    UNION {{build_format_options(i)[k].format_string :
                k \in 1..Len(build_format_options(i))} : i \in TierInfos}

\* the format_string and quality fields of a download request: a tier's
\* selector, a selector of the client's own, a quality hint, or neither
Payloads ==
    {[format_string |-> f, quality |-> <<>>] :
        f \in TierFormatStrings \cup {<<" ">>, <<"bestaudio">>,
                                      <<"bestvideo", "+", "bestaudio">>,
                                      <<" ", "bestvideo", "+", "bestaudio", "/", "best", " ">>}}
    \cup {[format_string |-> <<>>, quality |-> q] :
            q \in {<<>>, <<" ">>, <<"bestaudio">>, <<"137">>}}
    \cup {[format_string |-> <<"bestaudio", "/", "best">>, quality |-> <<"137">>]}

\* the per-call overrides _compose_ydl_opts is applied to on its own
Overrides ==
    {dict_update(dict_update(a, b), c) :
        a \in {EmptyDict, ExtractInfoOverrides, Item("quiet", <<"False">>)},
        b \in {EmptyDict, Item("cookiefile", <<"other.txt">>)},
        c \in {EmptyDict, Item("cookiesfrombrowser",
                               <<Some(<<"chrome">>), Some(<<"Other">>), None, None>>)}}

(***************************************************************************)
(* The server: one worker thread per connection (ThreadingHTTPServer),     *)
(* each serving one request.                                               *)
(***************************************************************************)
MaxReports == 3
MaxServerReports == 1

Workers == {"w1", "w2"}

\* the url field of a request: missing, blank, or a URL (with white space
\* around it)
RequestUrls ==
    {<<>>, <<" ">>,
     <<" ", "https://youtu.be", "/", "a", " ">>,
     <<"https://www.youtube.com", "/", "watch", "?", "t", "=", "5", "&", "v", "=", "a">>}

\* the body of a POST: text json.loads rejects, bytes that are not UTF-8,
\* JSON that is not an object, or an object with a url field
Bodies ==
    {[kind |-> k, url |-> <<>>] : k \in {"invalid_json", "undecodable", "non_object"}}
    \cup {[kind |-> "object", url |-> u] : u \in RequestUrls}

\* the exceptions the engine raises in the server's runs
EngineErrors ==
    {<<"ERROR:", " ", "x">>,
     <<"ERROR:", " ", "Sign in to confirm">>}
Outcomes == {Returned} \cup {Raised(m) : m \in EngineErrors}

\* the callbacks of the engine in the server's runs
ServerReports ==
    {Report("downloading", 1, 2, 0, 1500000, 75),
     Report("finished", 2, 2, 0, 0, -1)}

NoRequest == [endpoint |-> "none", kind |-> "none", url |-> <<>>]

VARIABLES
    urlForm,        \* the URL of a request, as it was put together
    url,            \* the same URL as text
    canon1, canon2, \* its canonical form, and the canonical form of that
    urlPc,
    info, options, fmtPc,                   \* resolving the tiers of one response
    message, answer, authPc,                \* classifying one engine error
    pc,             \* per worker: "idle", "engine" (in the engine's download), "done"
    req,            \* per worker: the request being served
    response,       \* per worker: the status line and headers sent, and a JSON body
    events,         \* per worker: the events handed to send_event, in order
    wire,           \* per worker: the events written to the client
    reports,        \* per worker: the engine's callbacks so far
    connected,      \* per worker: the client is still there
    engineCalls,    \* per worker: the extract_info calls made
    engine,         \* per worker: how the engine call ended, if it has
    escaped         \* per worker: an exception left the handler

urlVars == <<urlForm, url, canon1, canon2, urlPc>>
fmtVars == <<info, options, fmtPc>>
authVars == <<message, answer, authPc>>
srvVars == <<pc, req, response, events, wire, reports, connected, engineCalls, engine,
            escaped>>

VARIABLES
    args,           \* the namespace parse_args returned
    environ,        \* the value of VIDEO_DL_CHROME_PROFILE in os.environ
    started,        \* main has put the server up
    ydl_auth_opts,  \* VideoInfoHandler.ydl_auth_opts
    base_ydl_opts,  \* VideoInfoHandler.base_ydl_opts
    overrides,      \* the overrides of one call of _compose_ydl_opts
    composed,       \* the dict that call returned
    optPc,
    call            \* per worker: the request it serves and the options it
                    \* has handed to the engine

optVars == <<args, environ, started, ydl_auth_opts, base_ydl_opts, overrides, composed,
            optPc, call>>
vars == <<urlVars, fmtVars, authVars, srvVars, optVars>>

NoAnswer == [info |-> NoResponse, download |-> NoResponse,
             stream |-> Event("none", "", 0, Dash, Dash, <<>>)]

UrlIdle ==
    /\ urlForm = [kind |-> "none", authority |-> "", id |-> <<>>, suffix |-> <<>>,
                  params |-> <<>>]
    /\ url = <<>>
    /\ canon1 = <<>>
    /\ canon2 = <<>>
    /\ urlPc = "off"

FmtIdle ==
    /\ info = [has_formats |-> FALSE, formats |-> <<>>]
    /\ options = <<>>
    /\ fmtPc = "off"

AuthIdle ==
    /\ message = <<>>
    /\ answer = NoAnswer
    /\ authPc = "off"

NoCall == [pc |-> "idle", endpoint |-> "none", format_string |-> <<>>, quality |-> <<>>,
           ydl_opts |-> EmptyDict, browser_arg |-> <<>>]

OptIdle ==
    /\ args = NoArgs
    /\ environ = <<>>
    /\ started = FALSE
    /\ ydl_auth_opts = EmptyDict
    /\ base_ydl_opts = BaseYdlOpts
    /\ overrides = EmptyDict
    /\ composed = EmptyDict
    /\ optPc = "off"
    /\ call = [w \in Workers |-> NoCall]

SrvIdle ==
    /\ pc = [w \in Workers |-> "idle"]
    /\ req = [w \in Workers |-> NoRequest]
    /\ response = [w \in Workers |-> NoResponse]
    /\ events = [w \in Workers |-> <<>>]
    /\ wire = [w \in Workers |-> <<>>]
    /\ reports = [w \in Workers |-> <<>>]
    /\ connected = [w \in Workers |-> TRUE]
    /\ engineCalls = [w \in Workers |-> <<>>]
    /\ engine = [w \in Workers |-> Running]
    /\ escaped = [w \in Workers |-> FALSE]

(***************************************************************************)
(* Canonicalizing a URL, and canonicalizing the result again.              *)
(***************************************************************************)
InitUrl ==
    /\ urlForm \in UrlForms
    /\ url = RenderUrl(urlForm)
    /\ canon1 = <<>>
    /\ canon2 = <<>>
    /\ urlPc = "input"
    /\ FmtIdle /\ AuthIdle /\ SrvIdle /\ OptIdle

Canonicalize ==
    /\ urlPc = "input"
    /\ canon1' = normalize_youtube_url(url)
    /\ urlPc' = "once"
    /\ UNCHANGED <<urlForm, url, canon2, fmtVars, authVars, srvVars, optVars>>

Recanonicalize ==
    /\ urlPc = "once"
    /\ canon2' = normalize_youtube_url(canon1)
    /\ urlPc' = "twice"
    /\ UNCHANGED <<urlForm, url, canon1, fmtVars, authVars, srvVars, optVars>>

NextUrl == Canonicalize \/ Recanonicalize

SpecUrl == InitUrl /\ [][NextUrl]_vars

(***************************************************************************)
(* Resolving the quality tiers of one metadata response.                   *)
(***************************************************************************)
InitFmt ==
    /\ info \in Infos
    /\ options = <<>>
    /\ fmtPc = "input"
    /\ UrlIdle /\ AuthIdle /\ SrvIdle /\ OptIdle

BuildFormatOptions ==
    /\ fmtPc = "input"
    /\ options' = build_format_options(info)
    /\ fmtPc' = "built"
    /\ UNCHANGED <<info, urlVars, authVars, srvVars, optVars>>

NextFmt == BuildFormatOptions

SpecFmt == InitFmt /\ [][NextFmt]_vars

(***************************************************************************)
(* One engine error, answered by each of the three endpoints.              *)
(***************************************************************************)
InitAuth ==
    /\ message \in Messages
    /\ answer = NoAnswer
    /\ authPc = "raised"
    /\ UrlIdle /\ FmtIdle /\ SrvIdle /\ OptIdle

AnswerEngineError ==
    /\ authPc = "raised"
    /\ answer' = [info |-> JsonAnswer(EngineResult(Raised(message))),
                  download |-> JsonAnswer(EngineResult(Raised(message))),
                  stream |-> TerminalEvent(Raised(message))]
    /\ authPc' = "answered"
    /\ UNCHANGED <<message, urlVars, fmtVars, srvVars, optVars>>

NextAuth == AnswerEngineError

SpecAuth == InitAuth /\ [][NextAuth]_vars

(***************************************************************************)
(* The request handlers.                                                   *)
(***************************************************************************)
Init == UrlIdle /\ FmtIdle /\ AuthIdle /\ SrvIdle /\ OptIdle

EngineCall(u, download) == [url |-> u, download |-> download]

\* the exceptions wfile.write and wfile.flush raise on a connection the
\* client has closed: EPIPE and ECONNRESET
WriteErrors == {"BrokenPipeError", "ConnectionResetError"}

\* an except clause for BrokenPipeError alone
SwallowedBrokenPipeOnly == {"BrokenPipeError"}

\* the except clause of send_event
Swallowed == {"BrokenPipeError", "ConnectionResetError"}

\* the write of send_event fails with err and the except clause lets it through
WriteRaises(w, evs, err) == ~connected[w] /\ evs # <<>> /\ err \notin Swallowed

\* send_event putting the newest event in front of the earlier ones
send_event_newest_first(w, evs) ==
    /\ events' = [events EXCEPT ![w] = evs \o @]
    /\ wire' = [wire EXCEPT ![w] = IF connected[w] THEN evs \o @ ELSE @]

\* send_event: the event is written unless the client is gone, in which
\* case the BrokenPipeError or ConnectionResetError is swallowed
send_event(w, evs) ==
    /\ events' = [events EXCEPT ![w] = @ \o evs]
    /\ wire' = [wire EXCEPT ![w] = IF connected[w] THEN @ \o evs ELSE @]

\* GET /api/video-info?url=u: _handle_api and _extract_info
VideoInfo(w, u, outcome) ==
    /\ pc[w] = "idle"
    /\ pc' = [pc EXCEPT ![w] = "done"]
    /\ req' = [req EXCEPT ![w] = [endpoint |-> "video-info", kind |-> "query", url |-> u]]
    /\ IF strip(u) = <<>>
       THEN /\ response' = [response EXCEPT ![w] =
                                _send_json(<<"Missing url parameter">>, <<>>, 400)]
            /\ UNCHANGED <<engineCalls, engine>>
       ELSE /\ engineCalls' = [engineCalls EXCEPT ![w] =
                                   <<EngineCall(normalize_youtube_url(strip(u)), FALSE)>>]
            /\ engine' = [engine EXCEPT ![w] = outcome]
            /\ response' = [response EXCEPT ![w] = JsonAnswer(EngineResult(outcome))]
    /\ UNCHANGED <<events, wire, reports, connected, escaped, urlVars, fmtVars, authVars, optVars>>

\* POST /api/download: _handle_download and _download_video.  dir_ok is
\* whether save_dir.mkdir succeeds
Download(w, body, dir_ok, outcome) ==
    /\ pc[w] = "idle"
    /\ pc' = [pc EXCEPT ![w] = "done"]
    /\ req' = [req EXCEPT ![w] = [endpoint |-> "download", kind |-> body.kind, url |-> body.url]]
    /\ IF body.kind = "invalid_json"
       THEN /\ response' = [response EXCEPT ![w] =
                                _send_json(<<"Invalid JSON payload">>, <<>>, 400)]
            /\ UNCHANGED <<engineCalls, engine, escaped>>
       ELSE IF body.kind \in {"undecodable", "non_object"}
       THEN /\ escaped' = [escaped EXCEPT ![w] = TRUE]
            /\ UNCHANGED <<engineCalls, engine, response>>
       ELSE IF strip(body.url) = <<>>
       THEN /\ response' = [response EXCEPT ![w] = _send_json(<<"Missing url">>, <<>>, 400)]
            /\ UNCHANGED <<engineCalls, engine, escaped>>
       ELSE IF ~dir_ok
       THEN /\ escaped' = [escaped EXCEPT ![w] = TRUE]
            /\ UNCHANGED <<engineCalls, engine, response>>
       ELSE /\ engineCalls' = [engineCalls EXCEPT ![w] = <<EngineCall(strip(body.url), TRUE)>>]
            /\ engine' = [engine EXCEPT ![w] = outcome]
            /\ response' = [response EXCEPT ![w] = JsonAnswer(EngineResult(outcome))]
            /\ UNCHANGED escaped
    /\ UNCHANGED <<events, wire, reports, connected, urlVars, fmtVars, authVars, optVars>>

\* POST /api/download-stream: _handle_download_stream up to the engine call
DownloadStream(w, body, dir_ok) ==
    /\ pc[w] = "idle"
    /\ req' = [req EXCEPT ![w] = [endpoint |-> "download-stream", kind |-> body.kind,
                                  url |-> body.url]]
    /\ IF body.kind = "invalid_json"
       THEN /\ response' = [response EXCEPT ![w] =
                                _send_json(<<"Invalid JSON payload">>, <<>>, 400)]
            /\ pc' = [pc EXCEPT ![w] = "done"]
            /\ UNCHANGED <<engineCalls, escaped>>
       ELSE IF body.kind \in {"undecodable", "non_object"}
       THEN /\ escaped' = [escaped EXCEPT ![w] = TRUE]
            /\ pc' = [pc EXCEPT ![w] = "done"]
            /\ UNCHANGED <<engineCalls, response>>
       ELSE IF strip(body.url) = <<>>
       THEN /\ response' = [response EXCEPT ![w] = _send_json(<<"Missing url">>, <<>>, 400)]
            /\ pc' = [pc EXCEPT ![w] = "done"]
            /\ UNCHANGED <<engineCalls, escaped>>
       ELSE IF ~dir_ok
       THEN /\ escaped' = [escaped EXCEPT ![w] = TRUE]
            /\ pc' = [pc EXCEPT ![w] = "done"]
            /\ UNCHANGED <<engineCalls, response>>
       ELSE /\ response' = [response EXCEPT ![w] = EventStream]
            /\ engineCalls' = [engineCalls EXCEPT ![w] = <<EngineCall(strip(body.url), TRUE)>>]
            /\ pc' = [pc EXCEPT ![w] = "engine"]
            /\ UNCHANGED escaped
    /\ UNCHANGED <<events, wire, reports, connected, engine, urlVars, fmtVars, authVars, optVars>>

\* the engine calls progress_hook(d) during the download; a session takes at
\* most cap callbacks
EngineReport(w, d, cap) ==
    /\ pc[w] = "engine"
    /\ Len(reports[w]) < cap
    /\ reports' = [reports EXCEPT ![w] = Append(@, d)]
    /\ send_event(w, progress_hook(d))
    /\ \E err \in WriteErrors :
          IF WriteRaises(w, progress_hook(d), err)
          THEN \* the exception leaves progress_hook and ends the engine's
               \* download; the write of the error event (line 585) fails the
               \* same way, outside any try
               /\ engine' = [engine EXCEPT ![w] = Raised(<<"x">>)]
               /\ escaped' = [escaped EXCEPT ![w] = TRUE]
               /\ pc' = [pc EXCEPT ![w] = "done"]
          ELSE UNCHANGED <<pc, engine, escaped>>
    /\ UNCHANGED <<req, response, connected, engineCalls, urlVars, fmtVars, authVars, optVars>>

\* extract_info and prepare_filename return: the complete event
EngineReturn(w) ==
    /\ pc[w] = "engine"
    /\ engine' = [engine EXCEPT ![w] = Returned]
    /\ send_event(w, <<TerminalEvent(Returned)>>)
    /\ \E err \in WriteErrors :
          escaped' = [escaped EXCEPT ![w] = WriteRaises(w, <<TerminalEvent(Returned)>>, err)]
    /\ pc' = [pc EXCEPT ![w] = "done"]
    /\ UNCHANGED <<req, response, reports, connected, engineCalls, urlVars, fmtVars, authVars, optVars>>

\* EngineRaise without the except clause of lines 583-588
EngineRaiseUncaught(w, m) ==
    /\ pc[w] = "engine"
    /\ engine' = [engine EXCEPT ![w] = Raised(m)]
    /\ escaped' = [escaped EXCEPT ![w] = TRUE]
    /\ pc' = [pc EXCEPT ![w] = "done"]
    /\ UNCHANGED <<req, response, events, wire, reports, connected, engineCalls,
                   urlVars, fmtVars, authVars, optVars>>

\* EngineRaise answering as _handle_download does, with a 500 JSON response
EngineRaiseAs500(w, m) ==
    /\ pc[w] = "engine"
    /\ engine' = [engine EXCEPT ![w] = Raised(m)]
    /\ response' = [response EXCEPT ![w] = JsonAnswer(EngineResult(Raised(m)))]
    /\ pc' = [pc EXCEPT ![w] = "done"]
    /\ UNCHANGED <<req, events, wire, reports, connected, engineCalls, escaped,
                   urlVars, fmtVars, authVars, optVars>>

\* the engine raises: the error event
EngineRaise(w, m) ==
    /\ pc[w] = "engine"
    /\ engine' = [engine EXCEPT ![w] = Raised(m)]
    /\ send_event(w, <<TerminalEvent(Raised(m))>>)
    /\ \E err \in WriteErrors :
          escaped' = [escaped EXCEPT ![w] = WriteRaises(w, <<TerminalEvent(Raised(m))>>, err)]
    /\ pc' = [pc EXCEPT ![w] = "done"]
    /\ UNCHANGED <<req, response, reports, connected, engineCalls, urlVars, fmtVars, authVars, optVars>>

\* the client of a stream session goes away
ClientDisconnect(w) ==
    /\ pc[w] = "engine"
    /\ connected[w]
    /\ connected' = [connected EXCEPT ![w] = FALSE]
    /\ UNCHANGED <<pc, req, response, events, wire, reports, engineCalls, engine, escaped,
                   urlVars, fmtVars, authVars, optVars>>

\* the connection is closed and the worker thread ends; the next connection
\* gets a fresh one
Close(w) ==
    /\ pc[w] = "done"
    /\ pc' = [pc EXCEPT ![w] = "idle"]
    /\ req' = [req EXCEPT ![w] = NoRequest]
    /\ response' = [response EXCEPT ![w] = NoResponse]
    /\ events' = [events EXCEPT ![w] = <<>>]
    /\ wire' = [wire EXCEPT ![w] = <<>>]
    /\ reports' = [reports EXCEPT ![w] = <<>>]
    /\ connected' = [connected EXCEPT ![w] = TRUE]
    /\ engineCalls' = [engineCalls EXCEPT ![w] = <<>>]
    /\ engine' = [engine EXCEPT ![w] = Running]
    /\ escaped' = [escaped EXCEPT ![w] = FALSE]
    /\ UNCHANGED <<urlVars, fmtVars, authVars, optVars>>

Next ==
    \E w \in Workers :
        \/ \E u \in RequestUrls, o \in Outcomes : VideoInfo(w, u, o)
        \/ \E b \in Bodies, ok \in BOOLEAN, o \in Outcomes : Download(w, b, ok, o)
        \/ \E b \in Bodies, ok \in BOOLEAN : DownloadStream(w, b, ok)
        \/ \E d \in ServerReports : EngineReport(w, d, MaxServerReports)
        \/ EngineReturn(w)
        \/ \E m \in EngineErrors : EngineRaise(w, m)
        \/ ClientDisconnect(w)
        \/ Close(w)

Spec == Init /\ [][Next]_vars

(***************************************************************************)
(* One stream session on its own, with every callback sequence.            *)
(***************************************************************************)
StreamBodies == {[kind |-> "object", url |-> <<" ", "https://youtu.be", "/", "a", " ">>]}

NextStream ==
    \/ \E b \in StreamBodies : DownloadStream("w1", b, TRUE)
    \/ \E d \in Reports : EngineReport("w1", d, MaxReports)
    \/ EngineReturn("w1")
    \/ \E m \in EngineErrors : EngineRaise("w1", m)
    \/ ClientDisconnect("w1")
    \/ Close("w1")

SpecStream == Init /\ [][NextStream]_vars

(***************************************************************************)
(* Start-up, and the options each request hands to the engine.             *)
(***************************************************************************)
\* main: the credential configuration is put into the handler class, then
\* the server is created
main ==
    /\ ~started
    /\ ydl_auth_opts' = main_auth_opts(args)
    /\ started' = TRUE
    /\ UNCHANGED <<args, environ, base_ydl_opts, overrides, composed, optPc, call,
                   urlVars, fmtVars, authVars, srvVars>>

\* one call of _compose_ydl_opts
ComposeYdlOpts ==
    /\ started
    /\ optPc = "input"
    /\ LET r == _compose_ydl_opts(ydl_auth_opts, base_ydl_opts, environ, overrides)
       IN /\ composed' = r.opts
          /\ ydl_auth_opts' = r.ydl_auth_opts
          /\ base_ydl_opts' = r.base_ydl_opts
    /\ optPc' = "composed"
    /\ UNCHANGED <<args, environ, started, overrides, call,
                   urlVars, fmtVars, authVars, srvVars>>

InitCompose ==
    /\ args \in StartupArgs
    /\ environ \in Environments
    /\ started = FALSE
    /\ ydl_auth_opts = EmptyDict
    /\ base_ydl_opts = BaseYdlOpts
    /\ overrides \in Overrides
    /\ composed = EmptyDict
    /\ optPc = "input"
    /\ call = [w \in Workers |-> NoCall]
    /\ UrlIdle /\ FmtIdle /\ AuthIdle /\ SrvIdle

NextCompose == main \/ ComposeYdlOpts

SpecCompose == InitCompose /\ [][NextCompose]_vars

\* a handler composes the options of its engine call
EngineOpts(w, endpoint, payload, extra) ==
    LET r == _compose_ydl_opts(ydl_auth_opts, base_ydl_opts, environ, extra)
    IN /\ call' = [call EXCEPT ![w] =
                      [pc |-> "engine", endpoint |-> endpoint,
                       format_string |-> payload.format_string, quality |-> payload.quality,
                       ydl_opts |-> r.opts, browser_arg |-> <<>>]]
       /\ ydl_auth_opts' = r.ydl_auth_opts
       /\ base_ydl_opts' = r.base_ydl_opts

\* GET /api/video-info: the options of _extract_info
ExtractInfoCall(w) ==
    /\ started
    /\ call[w].pc = "idle"
    /\ EngineOpts(w, "video-info", [format_string |-> <<>>, quality |-> <<>>],
                  ExtractInfoOverrides)
    /\ UNCHANGED <<args, environ, started, overrides, composed, optPc,
                   urlVars, fmtVars, authVars, srvVars>>

\* POST /api/download: the options of _download_video
DownloadVideoCall(w, payload) ==
    /\ started
    /\ call[w].pc = "idle"
    /\ LET fmt == fmt_download(strip(payload.format_string), strip(payload.quality))
       IN EngineOpts(w, "download", payload,
                     extra_opts(fmt, merge_fmt_download(fmt), EmptyDict))
    /\ UNCHANGED <<args, environ, started, overrides, composed, optPc,
                   urlVars, fmtVars, authVars, srvVars>>

\* POST /api/download-stream: the options of _handle_download_stream
DownloadStreamCall(w, payload) ==
    /\ started
    /\ call[w].pc = "idle"
    /\ LET fmt == fmt_stream(strip(payload.format_string), strip(payload.quality))
       IN EngineOpts(w, "download-stream", payload,
                     extra_opts(fmt, merge_fmt_stream(fmt),
                                Item("progress_hooks", <<"progress_hook">>)))
    /\ UNCHANGED <<args, environ, started, overrides, composed, optPc,
                   urlVars, fmtVars, authVars, srvVars>>

\* GET /api/auth-status and POST /api/auth-get: run_yt_dlp_probe starts the
\* engine with --cookies-from-browser browser_arg
ProbeCall(w) ==
    /\ started
    /\ call[w].pc = "idle"
    /\ call' = [call EXCEPT ![w] =
                   [pc |-> "engine", endpoint |-> "auth-status",
                    format_string |-> <<>>, quality |-> <<>>,
                    ydl_opts |-> EmptyDict, browser_arg |-> cookie_cli_arg(environ)]]
    /\ UNCHANGED <<args, environ, started, ydl_auth_opts, base_ydl_opts, overrides,
                   composed, optPc, urlVars, fmtVars, authVars, srvVars>>

\* the engine call ends and the worker with it
CallReturn(w) ==
    /\ call[w].pc = "engine"
    /\ call' = [call EXCEPT ![w] = NoCall]
    /\ UNCHANGED <<args, environ, started, ydl_auth_opts, base_ydl_opts, overrides,
                   composed, optPc, urlVars, fmtVars, authVars, srvVars>>

InitOpts ==
    /\ args \in StartupArgs
    /\ environ \in Environments
    /\ started = FALSE
    /\ ydl_auth_opts = EmptyDict
    /\ base_ydl_opts = BaseYdlOpts
    /\ overrides = EmptyDict
    /\ composed = EmptyDict
    /\ optPc = "off"
    /\ call = [w \in Workers |-> NoCall]
    /\ UrlIdle /\ FmtIdle /\ AuthIdle /\ SrvIdle

NextOpts ==
    \/ main
    \/ \E w \in Workers :
        \/ ExtractInfoCall(w)
        \/ \E p \in Payloads : DownloadVideoCall(w, p)
        \/ \E p \in Payloads : DownloadStreamCall(w, p)
        \/ ProbeCall(w)
        \/ CallReturn(w)

SpecOpts == InitOpts /\ [][NextOpts]_vars

(***************************************************************************)
(* Properties.                                                             *)
(***************************************************************************)
IsProgress(e) == e.type = "progress" /\ e.status \in {"downloading", "merging"}
IsTerminal(e) == e.type \in {"complete", "error"}
StreamOpened(w) == response[w].status = 200 /\ response[w].ctype = "text/event-stream"
HasTerminal(evs) == \E i \in 1..Len(evs) : IsTerminal(evs[i])
Last(s) == s[Len(s)]

\* C1: in every opened stream session the emitted events are progress and
\* merging events followed by exactly one terminal event (complete or error):
\* none before the session ends, one at its end, and none after it.
StreamEndsWithOneTerminal ==
    /\ [](\A w \in Workers : StreamOpened(w) =>
            /\ \A i \in 1..(Len(events[w]) - 1) : IsProgress(events[w][i])
            /\ pc[w] = "engine" => ~HasTerminal(events[w])
            /\ pc[w] = "done" => events[w] # <<>> /\ IsTerminal(Last(events[w])))
    /\ [][\A w \in Workers : (StreamOpened(w) /\ HasTerminal(events[w])) =>
            events'[w] \in {events[w], <<>>}]_vars

\* a session that sent two progress events and then failed
StreamEndsWithOneTerminalWitness ==
    \E w \in Workers :
        /\ StreamOpened(w) /\ pc[w] = "done"
        /\ Len(events[w]) = 3
        /\ Last(events[w]).type = "error"
        /\ reports[w] # <<>>

InvalidRequest(r) == r.kind = "invalid_json" \/ (r.kind = "object" /\ strip(r.url) = <<>>)

NoFailureEscapes ==
    \A w \in Workers : pc[w] = "done" =>
        /\ ~escaped[w]
        /\ \/ /\ response[w].ctype = "application/json"
              /\ response[w].status \in {200, 400, 401, 500}
           \/ /\ StreamOpened(w)
              /\ events[w] # <<>> /\ IsTerminal(Last(events[w]))

AuthPhrases == {"sign in to confirm", "not a bot", "http error 403", "403 forbidden",
                "status code 403"}
HasAuthPhrase(m) == \E i \in 1..Len(m) : lower[m[i]] \in AuthPhrases

\* C4: an engine error whose text contains one of the auth phrases is
\* answered 401 AUTH_REQUIRED by /api/video-info and /api/download.
AuthPhraseAnswered401 ==
    (authPc = "answered" /\ HasAuthPhrase(message)) =>
        /\ answer.info.status = 401 /\ answer.info.error = <<"AUTH_REQUIRED">>
        /\ answer.download.status = 401 /\ answer.download.error = <<"AUTH_REQUIRED">>

\* C5: every engine call gets the canonical form of the request's url.
EngineGetsCanonicalUrl ==
    \A w \in Workers : \A i \in 1..Len(engineCalls[w]) :
        engineCalls[w][i].url = normalize_youtube_url(strip(req[w].url))

\* C6: canonicalizing a canonical URL changes nothing.
Idempotent == urlPc = "twice" => canon2 = canon1

ShortLinkAuthorities == {"https://youtu.be", "https://YOUTU.BE"}
VideoSiteAuthorities == {"https://www.youtube.com", "https://www.youtube-nocookie.com"}
IsPlainId(x) == x # <<>> /\ \A i \in 1..Len(x) : x[i] \in PlainChars
OnlyOneV(ps) == Cardinality({i \in 1..Len(ps) : ps[i].name = <<"v">>}) = 1
CanonicalOf(x) == <<"https://www.youtube.com", "/", "watch", "?", "v", "=">> \o x

Ladder == <<2160, 1440, 1080, 720, 480, 360>>
LadderText == <<"2160", "1440", "1080", "720", "480", "360">>
PresentVideo(d) == d.vcodec \notin {"None", "none"}
VideoHeights == {info.formats[i].height :
                    i \in {j \in 1..Len(info.formats) : PresentVideo(info.formats[j])}}
RungReached(r) == \E h \in VideoHeights : h >= r
Ids(opts) == [k \in 1..Len(opts) |-> opts[k].id]
\* the rungs of the ladder from number j on that are reached, as tier ids
RECURSIVE ReachedTiers(_)
ReachedTiers(j) ==
    IF j > Len(Ladder) THEN <<>>
    ELSE (IF RungReached(Ladder[j]) THEN <<(<<"tier_", LadderText[j]>>)>> ELSE <<>>)
         \o ReachedTiers(j + 1)

\* C8: the tiers are Best Available, then the reached rungs of the ladder
\* in descending order, then audio only.
TiersInLadderOrder ==
    fmtPc = "built" =>
        /\ Ids(options) = <<BestSelector>> \o ReachedTiers(1) \o <<(<<"bestaudio">>)>>
        /\ options[1].label[1] = "Best Available"
        /\ Last(options).label[1] = "Audio only"
        /\ \A k \in 2..(Len(options) - 1) : \E j \in 1..Len(Ladder) :
              /\ options[k].id = <<"tier_", LadderText[j]>>
              /\ options[k].format_string =
                    <<"bestvideo", "[height<=", LadderText[j], "]", "+", "bestaudio", "/", "best">>
        /\ VideoHeights = {1080, 720, 480, 360} =>
              Ids(options) = <<BestSelector, <<"tier_", "1080">>, <<"tier_", "720">>,
                               <<"tier_", "480">>, <<"tier_", "360">>, <<"bestaudio">>>>

\* the response with the heights 1080, 720, 480 and 360
TiersInLadderOrderWitness ==
    /\ fmtPc = "built"
    /\ VideoHeights = {1080, 720, 480, 360}
    /\ Len(options) = 6

\* C9: every height-bounded tier that is offered has a descriptor with a
\* video track whose height is within the tier's bound.
TiersSatisfiable ==
    fmtPc = "built" =>
        \A k \in 1..Len(options) : \A j \in 1..Len(Ladder) :
            options[k].id = <<"tier_", LadderText[j]>> =>
                \E h \in VideoHeights : h # 0 /\ h <= Ladder[j]

Total(d) == IF d.total_bytes # 0 THEN d.total_bytes ELSE d.total_bytes_estimate
\* downloading reports with a known total and a non-decreasing
\* downloaded/total, then one finished report
SimulatedRun(rs) ==
    /\ rs # <<>> /\ Last(rs).status = "finished"
    /\ \A i \in 1..(Len(rs) - 1) : rs[i].status = "downloading" /\ Total(rs[i]) > 0
    /\ \A i \in 1..(Len(rs) - 2) :
          rs[i].downloaded_bytes * Total(rs[i + 1]) <= rs[i + 1].downloaded_bytes * Total(rs[i])
Positions(evs, Test(_)) == {i \in 1..Len(evs) : Test(evs[i])}
IsMerging(e) == e.status = "merging"
IsComplete(e) == e.type = "complete"
IsDownloading(e) == e.status = "downloading"

\* C10: a simulated run that returns yields exactly one merging event at
\* 100 percent, then exactly one complete event, and the percentages of its
\* progress events never decrease.
SimulatedRunEvents ==
    \A w \in Workers :
        (pc[w] = "done" /\ StreamOpened(w) /\ engine[w].kind = "ok"
            /\ SimulatedRun(reports[w])) =>
            LET evs == events[w]
                n == Len(evs)
            IN /\ n = Len(reports[w]) + 1
               /\ Positions(evs, IsMerging) = {n - 1}
               /\ evs[n - 1].percent = 1000
               /\ Positions(evs, IsComplete) = {n}
               /\ \A i, j \in Positions(evs, IsDownloading) :
                     i < j => evs[i].percent <= evs[j].percent

\* the run downloading 50%, downloading 100%, finished
SimulatedRunEventsWitness ==
    \E w \in Workers :
        /\ pc[w] = "done" /\ engine[w].kind = "ok"
        /\ reports[w] = <<Report("downloading", 1, 2, 0, 1500000, 75),
                          Report("downloading", 2, 2, 0, 0, -1),
                          Report("finished", 2, 2, 0, 0, -1)>>
        /\ Len(events[w]) = 4

IsPrefix(s, t) == Len(s) <= Len(t) /\ s = SubSeq(t, 1, Len(s))

\* C11: once the client of a stream session is gone, nothing more is written
\* to it and no exception leaves send_event, the callback or the handler; the
\* disconnect itself changes nothing of the engine's download, which goes on
\* taking callbacks and ends only by returning or raising, after which the
\* handler ends with the terminal event of that outcome.
DisconnectDropsWrites ==
    /\ [](\A w \in Workers : (StreamOpened(w) /\ ~connected[w]) =>
            /\ ~escaped[w]
            /\ IsPrefix(wire[w], events[w])
            /\ pc[w] = "done" =>
                  /\ engine[w].kind \in {"ok", "raise"}
                  /\ engine[w].kind = "raise" => engine[w].message \in EngineErrors
                  /\ Last(events[w]) = TerminalEvent(engine[w]))
    /\ [][\A w \in Workers :
            /\ (connected[w] /\ ~connected'[w]) =>
                  /\ pc'[w] = pc[w] /\ engine'[w] = engine[w]
                  /\ reports'[w] = reports[w] /\ events'[w] = events[w]
            /\ (StreamOpened(w) /\ ~connected[w]) =>
                  /\ wire'[w] \in {wire[w], <<>>}
                  /\ (pc[w] = "engine" /\ pc'[w] = "done") => engine'[w].kind \in {"ok", "raise"}
                  /\ (pc[w] = "engine" /\ pc'[w] = "engine") =>
                        \/ reports'[w] = reports[w]
                        \/ /\ Len(reports'[w]) = Len(reports[w]) + 1
                           /\ events'[w] = events[w] \o progress_hook(Last(reports'[w]))]_vars

\* a client that left after the first event of a download that went on for
\* two more callbacks and then returned
DisconnectDropsWritesWitness ==
    \E w \in Workers :
        /\ StreamOpened(w) /\ ~connected[w] /\ pc[w] = "done" /\ ~escaped[w]
        /\ engine[w].kind = "ok"
        /\ Len(reports[w]) = 3
        /\ Len(wire[w]) = 1 /\ Len(events[w]) = 4

IsCounted(d) == d.status \in {"downloading", "finished"}
\* the event e is the one event of the callback d
EventOfReport(d, e) ==
    /\ e.type = "progress"
    /\ d.status = "downloading" =>
          e.status = "downloading" /\ e.speed = format_speed(d.speed) /\ e.eta = format_eta(d.eta)
    /\ d.status = "finished" => e.status = "merging" /\ e.percent = 1000

\* C12: the progress events of a session are, one for one and in the same
\* order, the engine's callbacks with status downloading or finished;
\* callbacks with another status give no event, and while the client is
\* there every event handed over is already on the wire when the callback
\* has returned.
EventsInCallbackOrder ==
    \A w \in Workers : StreamOpened(w) =>
        LET rs == SelectSeq(reports[w], IsCounted)
            evs == SelectSeq(events[w], IsProgress)
        IN /\ Len(evs) = Len(rs)
           /\ \A i \in 1..Len(rs) : EventOfReport(rs[i], evs[i])
           /\ IsPrefix(evs, events[w])
           /\ Len(events[w]) <= Len(evs) + 1
           /\ connected[w] => wire[w] = events[w]

\* a download reporting progress, a status of another kind and the end of
\* the transfer, in that order
EventsInCallbackOrderWitness ==
    \E w \in Workers :
        /\ StreamOpened(w) /\ connected[w] /\ pc[w] = "engine"
        /\ reports[w] = <<Report("downloading", 1, 3, 0, 2500, 3700),
                          Report("error", 0, 0, 0, 0, -1),
                          Report("finished", 2, 2, 0, 0, -1)>>
        /\ Len(wire[w]) = 2 /\ wire[w][1].status = "downloading"
        /\ wire[w][2].status = "merging"

HasKey(d, key) == key \in DOMAIN d
ExactlyOneCredential(opts) == HasKey(opts, "cookiefile") # HasKey(opts, "cookiesfrombrowser")
\* the default chrome specification, with the profile of the environment
DefaultChrome ==
    <<Some(<<"chrome">>), IF strip(environ) = <<>> THEN None ELSE Some(strip(environ)),
      None, None>>
\* the options hold the credential key with value and not the other key
HoldsOnly(opts, key, value) ==
    /\ ExactlyOneCredential(opts)
    /\ HasKey(opts, key) /\ opts[key] = value

Overridden(key, value) == IF HasKey(overrides, key) THEN overrides[key] ELSE value

CredentialOf(opts) ==
    IF HasKey(opts, "cookiefile") THEN [kind |-> "file", value |-> opts["cookiefile"]]
    ELSE [kind |-> "browser", value |-> opts["cookiesfrombrowser"]]
\* the credential the engine's command line --cookies-from-browser arg names
CredentialOfArg(arg) == [kind |-> "browser", value |-> parse_browser_cookie_spec(arg).value]
SameCredential(a, b) == a.kind = b.kind /\ a.value = b.value

\* C14: the credential the auth probe passes to the engine is the one
\* _compose_ydl_opts resolves for metadata fetches and downloads under the
\* same start-up configuration.
ProbeUsesResolvedCredential ==
    \A w \in Workers : call[w].endpoint = "auth-status" =>
        SameCredential(
            CredentialOfArg(call[w].browser_arg),
            CredentialOf(_compose_ydl_opts(ydl_auth_opts, base_ydl_opts, environ,
                                           ExtractInfoOverrides).opts))

BestAvailable == <<"bestvideo", "+", "bestaudio", "/", "best">>
\* the effective selector of a request: the explicit selector, else the
\* quality hint in front of the generic fallback, else the fallback alone
EffectiveSelector(c) ==
    IF strip(c.format_string) # <<>> THEN strip(c.format_string)
    ELSE IF strip(c.quality) # <<>> THEN strip(c.quality) \o <<"/">> \o BestAvailable
    ELSE BestAvailable
\* a selector that asks for the best audio and for no video
AudioOnly(sel) ==
    (\E i \in 1..Len(sel) : sel[i] = "bestaudio") /\ (\A i \in 1..Len(sel) : sel[i] # "bestvideo")
\* the container a selector stands for; the empty text is no merge step
ContainerOf(sel) ==
    IF sel = BestAvailable THEN <<"mkv">>
    ELSE IF AudioOnly(sel) THEN <<>>
    ELSE <<"mp4">>
\* the merge option of a dict of engine options, the empty text when absent
MergeOption(opts) ==
    IF HasKey(opts, "merge_output_format") THEN opts["merge_output_format"] ELSE <<>>
IsDownloadCall(c) == c.pc = "engine" /\ c.endpoint \in {"download", "download-stream"}
\* the tiers build_format_options emits whose selector the request carries
SubmittedTiers(c) ==
    UNION {{build_format_options(i)[k] : k \in {j \in 1..Len(build_format_options(i)) :
                build_format_options(i)[j].format_string = c.format_string}} : i \in TierInfos}

\* C15: in /api/download and in /api/download-stream the merge option is
\* the same function of the effective selector: mkv for the best available
\* selector, none for an audio-only selector, mp4 for every other; a
\* submitted tier of build_format_options gets mkv when it is Best
\* Available, mp4 when it is a rung of the ladder, and no merge option when
\* it is the audio-only tier.
MergeContainerBySelector ==
    \A w \in Workers : IsDownloadCall(call[w]) =>
        /\ call[w].ydl_opts["format"] = EffectiveSelector(call[w])
        /\ MergeOption(call[w].ydl_opts) = ContainerOf(EffectiveSelector(call[w]))
        /\ \A v \in Workers :
              (IsDownloadCall(call[v]) /\ EffectiveSelector(call[v]) = EffectiveSelector(call[w]))
                  => MergeOption(call[v].ydl_opts) = MergeOption(call[w].ydl_opts)
        /\ \A t \in SubmittedTiers(call[w]) :
              /\ t.label[1] = "Best Available" => MergeOption(call[w].ydl_opts) = <<"mkv">>
              /\ t.id[1] = "tier_" => MergeOption(call[w].ydl_opts) = <<"mp4">>
              /\ t.label[1] = "Audio only" => MergeOption(call[w].ydl_opts) = <<>>

\* the Best Available tier submitted to the stream endpoint while the 2160
\* rung is submitted to /api/download
MergeContainerBySelectorWitness ==
    /\ call["w1"].pc = "engine" /\ call["w1"].endpoint = "download-stream"
    /\ call["w1"].format_string = BestAvailable
    /\ MergeOption(call["w1"].ydl_opts) = <<"mkv">>
    /\ call["w2"].pc = "engine" /\ call["w2"].endpoint = "download"
    /\ call["w2"].format_string =
          <<"bestvideo", "[height<=", "2160", "]", "+", "bestaudio", "/", "best">>
    /\ MergeOption(call["w2"].ydl_opts) = <<"mp4">>

\* the credential configuration main derives from the command line
ConfiguredAtStartup(a) ==
    [k \in {j \in {"cookiefile", "cookiesfrombrowser"} :
                IF j = "cookiefile" THEN Truthy(a.cookies_file)
                ELSE Truthy(a.cookies_from_browser)} |->
        IF k = "cookiefile" THEN a.cookies_file.text ELSE a.cookies_from_browser.text]
Composing(c) == c.pc = "engine" /\ c.endpoint # "auth-status"

\* C16: ydl_auth_opts and base_ydl_opts are written once, before the server
\* is up, and no request changes them afterwards, whatever the interleaving;
\* requests served at the same time resolve the same credential.
ConfigurationWrittenOnce ==
    /\ [](started => /\ ydl_auth_opts = ConfiguredAtStartup(args)
                     /\ HasKey(base_ydl_opts, "quiet") /\ ~HasKey(base_ydl_opts, "format")
                     /\ ~HasKey(base_ydl_opts, "cookiefile")
                     /\ ~HasKey(base_ydl_opts, "cookiesfrombrowser"))
    /\ [](\A w, v \in Workers : (Composing(call[w]) /\ Composing(call[v])) =>
            SameCredential(CredentialOf(call[w].ydl_opts), CredentialOf(call[v].ydl_opts)))
    /\ [][started => /\ started'
                     /\ ydl_auth_opts' = ydl_auth_opts
                     /\ base_ydl_opts' = base_ydl_opts
                     /\ args' = args /\ environ' = environ]_vars

\* a metadata fetch and a download served at the same time with a configured
\* cookies file
ConfigurationWrittenOnceWitness ==
    /\ started /\ Truthy(args.cookies_file)
    /\ call["w1"].pc = "engine" /\ call["w1"].endpoint = "video-info"
    /\ call["w2"].pc = "engine" /\ call["w2"].endpoint = "download"
    /\ HasKey(call["w2"].ydl_opts, "merge_output_format")
    /\ HasKey(call["w1"].ydl_opts, "cookiefile") /\ HasKey(call["w2"].ydl_opts, "cookiefile")
    /\ ydl_auth_opts = Item("cookiefile", <<"cookies.txt">>)

====
